---- MODULE Spec2Model ----
(***************************************************************************)
(* Spaced-repetition schedule generator (core/spacedRepetition), iCal     *)
(* export encoder (core/calendarExport) and the calendar navigation of the *)
(* LearningSchedule component of tv-writer-overlap-explorer.               *)
(*                                                                         *)
(* Spec follows the calls of the pure functions over values, SpecObjects   *)
(* the same calls over objects a caller keeps and may change, and          *)
(* SpecComponent the handlers of the component.                            *)
(*                                                                         *)
(* A Date object is modelled by its time value: whole minutes since the    *)
(* epoch, UTC (the code never sets seconds or milliseconds to anything but *)
(* zero, so getTime() is the time value times 60000).  The getters and     *)
(* setters the code uses (getDate, setDate, getDay, setHours, ...) work on *)
(* local time, so the host's zone offset tz is part of the state.  The     *)
(* offset is fixed during a behaviour: daylight-saving transitions are not *)
(* modelled.                                                               *)
(*                                                                         *)
(* A text is a sequence of atoms.  An atom is a one-character string for   *)
(* every character the code inspects (backslash, semicolon, comma, CR, LF, *)
(* the digits and punctuation of a timestamp) and may be a longer string   *)
(* for a literal of the source that holds none of them.                    *)
(***************************************************************************)
EXTENDS Integers, Sequences, FiniteSets, TLC

VARIABLES tz, op, args, ret, heap, ui

vars == <<tz, op, args, ret, heap, ui>>

-----------------------------------------------------------------------------
(* Bounds of the model.                                                    *)

\* longest module list handed to generateSchedule
MaxModules == 3

\* longest free text (title, concept, question) of an encoded module
MaxText == 2

\* longest hand-built review list
MaxReviews == 2

-----------------------------------------------------------------------------
(* Date: the time-value arithmetic behind the Date methods the code calls. *)

MinutesPerHour == 60
MinutesPerDay == 24 * MinutesPerHour

\* zone offsets (minutes east of UTC) of the hosts the code may run on
TimeZones == {-480, 0, 600}

\* years the model's dates fall in
Years == 2023 .. 2027

Day(t) == t \div MinutesPerDay
TimeWithinDay(t) == t % MinutesPerDay

DayFromYear(y) ==
    365 * (y - 1970) + ((y - 1969) \div 4) - ((y - 1901) \div 100)
        + ((y - 1601) \div 400)

IsLeapYear(y) == (y % 4 = 0) /\ ((y % 100 # 0) \/ (y % 400 = 0))

\* the year that day (days since the epoch) falls in
YearOfDay(day) ==
    CHOOSE y \in Years : DayFromYear(y) <= day /\ day < DayFromYear(y + 1)

YearFromTime(t) == YearOfDay(Day(t))

\* day within the year on which month m (0-based; 12 = next January) starts
MonthStart(m, y) ==
    <<0, 31, 59, 90, 120, 151, 181, 212, 243, 273, 304, 334, 365>>[m + 1]
        + (IF m >= 2 /\ IsLeapYear(y) THEN 1 ELSE 0)

DayWithinYear(t) == Day(t) - DayFromYear(YearFromTime(t))

\* the month (0-based) that day d of year y falls in
MonthOfDay(d, y) ==
    CHOOSE m \in 0 .. 11 : MonthStart(m, y) <= d /\ d < MonthStart(m + 1, y)

MonthFromTime(t) == MonthOfDay(DayWithinYear(t), YearFromTime(t))

DateOfDay(d, y) == d - MonthStart(MonthOfDay(d, y), y) + 1

DateFromTime(t) == DateOfDay(DayWithinYear(t), YearFromTime(t))

WeekDay(t) == (Day(t) + 4) % 7

HourFromTime(t) == TimeWithinDay(t) \div MinutesPerHour
MinFromTime(t) == TimeWithinDay(t) % MinutesPerHour

\* MakeDay: month and date may lie outside their ranges and carry over
MakeDay(year, month, date) ==
    LET ym == year + (month \div 12)
        mn == month % 12
    IN  DayFromYear(ym) + MonthStart(mn, ym) + date - 1

MakeTime(hour, min) == hour * MinutesPerHour + min
MakeDate(day, time) == day * MinutesPerDay + time

LocalTime(t) == t + tz
UTC(t) == t - tz

\* Date.prototype getters (local time)
getFullYear(date) == YearFromTime(LocalTime(date))
getMonth(date) == MonthFromTime(LocalTime(date))
getDate(date) == DateFromTime(LocalTime(date))
getDay(date) == WeekDay(LocalTime(date))
getTime(date) == date

\* Date.prototype.setDate(dt): the day of the month is replaced, the local
\* time of day kept; dt outside the month carries into the neighbours
setDate(date, dt) ==
    LET lt == LocalTime(date)
    IN  UTC(MakeDate(MakeDay(YearFromTime(lt), MonthFromTime(lt), dt),
                     TimeWithinDay(lt)))

\* Date.prototype.setHours(h, 0, 0, 0)
setHours(date, hour) ==
    UTC(MakeDate(Day(LocalTime(date)), MakeTime(hour, 0)))

\* the instant of a UTC calendar date and time of day
DateUTC(y, m, d, hour, min) == MakeDate(MakeDay(y, m - 1, d), MakeTime(hour, min))

-----------------------------------------------------------------------------
(* spacedRepetition: the schedule generator.                               *)

REVIEW_INTERVALS == <<1, 3, 7, 14, 30, 60>>

\* ids of the module catalog
CatalogIds == <<"ch1", "ch2", "ch3", "ch4">>

ModuleIds == {CatalogIds[i] : i \in DOMAIN CatalogIds}

Chapter(id) == CASE id = "ch1" -> 1 [] id = "ch2" -> 2 [] id = "ch3" -> 3 [] OTHER -> 4

\* a catalog module: its free text holds no character that needs escaping
CatalogModule(id) ==
    [id |-> id,
     title |-> <<"Web Scraper">>,
     chapter |-> Chapter(id),
     concepts |-> <<<<"requests library">>, <<"JSON file handling">>>>,
     reviewQuestions |-> IF id = "ch3" THEN <<>> ELSE <<<<"What is CORS?">>>>,
     tutorialAnchor |-> <<"#chapter">>]

addDays(date, days) ==
    LET result == date
    IN  setDate(result, getDate(result) + days)

\* mutant: the initial-learning review is not pushed
ModuleReviews_NoInitial(startDate, module, index) ==
    LET learningDate == addDays(startDate, index)
    IN  [j \in 1 .. Len(REVIEW_INTERVALS) |->
            [moduleId |-> module.id,
             date |-> addDays(learningDate, REVIEW_INTERVALS[j]),
             reviewNumber |-> (j - 1) + 1,
             isInitialLearning |-> FALSE]]

\* mutant: the intervals are counted from the schedule's start date
ModuleReviews_FromStart(startDate, module, index) ==
    LET learningDate == addDays(startDate, index)
    IN  <<[moduleId |-> module.id,
           date |-> learningDate,
           reviewNumber |-> 0,
           isInitialLearning |-> TRUE]>>
        \o [j \in 1 .. Len(REVIEW_INTERVALS) |->
              [moduleId |-> module.id,
               date |-> addDays(startDate, REVIEW_INTERVALS[j]),
               reviewNumber |-> (j - 1) + 1,
               isInitialLearning |-> FALSE]]

\* mutant: the spaced reviews are numbered by their 0-based index
ModuleReviews_ZeroBased(startDate, module, index) ==
    LET learningDate == addDays(startDate, index)
    IN  <<[moduleId |-> module.id,
           date |-> learningDate,
           reviewNumber |-> 0,
           isInitialLearning |-> TRUE]>>
        \o [j \in 1 .. Len(REVIEW_INTERVALS) |->
              [moduleId |-> module.id,
               date |-> addDays(learningDate, REVIEW_INTERVALS[j]),
               reviewNumber |-> j - 1,
               isInitialLearning |-> FALSE]]

\* the seven reviews pushed for the module at (0-based) index: the body of
\* modules.forEach; REVIEW_INTERVALS[j] here is the source's element j - 1
ModuleReviews(startDate, module, index) ==
    LET learningDay == index
        learningDate == addDays(startDate, learningDay)
    IN  <<[moduleId |-> module.id,
           date |-> learningDate,
           reviewNumber |-> 0,
           isInitialLearning |-> TRUE]>>
        \o [j \in 1 .. Len(REVIEW_INTERVALS) |->
              [moduleId |-> module.id,
               date |-> addDays(learningDate, REVIEW_INTERVALS[j]),
               reviewNumber |-> (j - 1) + 1,
               isInitialLearning |-> FALSE]]

\* reviews after the first n modules have been visited
RECURSIVE PushReviews(_, _, _)
PushReviews(startDate, modules, n) ==
    IF n = 0 THEN <<>>
    ELSE PushReviews(startDate, modules, n - 1)
             \o ModuleReviews(startDate, modules[n], n - 1)

compareByDate(a, b) == getTime(a.date) - getTime(b.date)

\* mutant: an unstable sort, x goes in front of the elements equal to it
RECURSIVE Insert_Unstable(_, _)
Insert_Unstable(s, x) ==
    IF s = <<>> THEN <<x>>
    ELSE IF compareByDate(s[Len(s)], x) < 0 THEN Append(s, x)
    ELSE Append(Insert_Unstable(SubSeq(s, 1, Len(s) - 1), x), s[Len(s)])

\* Array.prototype.sort is a stable sort: x goes behind every element that
\* does not compare greater than it
RECURSIVE Insert(_, _)
Insert(s, x) ==
    IF s = <<>> THEN <<x>>
    ELSE IF compareByDate(s[Len(s)], x) <= 0 THEN Append(s, x)
    ELSE Append(Insert(SubSeq(s, 1, Len(s) - 1), x), s[Len(s)])

RECURSIVE SortPrefix(_, _)
SortPrefix(s, n) == IF n = 0 THEN <<>> ELSE Insert(SortPrefix(s, n - 1), s[n])

sort(s) == SortPrefix(s, Len(s))

generateSchedule(startDate, modules) ==
    LET reviews == PushReviews(startDate, modules, Len(modules))
    IN  [startDate |-> startDate,
         modules |-> modules,
         reviews |-> sort(reviews)]

\* Math.min and Math.max of the first n of dates
MinTime(dates, n) ==
    CHOOSE m \in {dates[j] : j \in 1 .. n} : \A j \in 1 .. n : m <= dates[j]

MaxTime(dates, n) ==
    CHOOSE m \in {dates[j] : j \in 1 .. n} : \A j \in 1 .. n : m >= dates[j]

\* mutant: the end is taken with Math.min as well
getScheduleDateRange_MinTwice(schedule) ==
    IF Len(schedule.reviews) = 0
    THEN [start |-> schedule.startDate, end |-> schedule.startDate]
    ELSE LET dates == [j \in 1 .. Len(schedule.reviews) |->
                          getTime(schedule.reviews[j].date)]
         IN  [start |-> MinTime(dates, Len(dates)),
              end |-> MinTime(dates, Len(dates))]

getScheduleDateRange(schedule) ==
    IF Len(schedule.reviews) = 0
    THEN [start |-> schedule.startDate, end |-> schedule.startDate]
    ELSE LET dates == [j \in 1 .. Len(schedule.reviews) |->
                          getTime(schedule.reviews[j].date)]
         IN  [start |-> MinTime(dates, Len(dates)),
              end |-> MaxTime(dates, Len(dates))]

\* mutant: only the day of the month is compared
isSameDay_DateOnly(date1, date2) ==
    getDate(date1) = getDate(date2)

isSameDay(date1, date2) ==
    /\ getFullYear(date1) = getFullYear(date2)
    /\ getMonth(date1) = getMonth(date2)
    /\ getDate(date1) = getDate(date2)

\* Array.prototype.filter keeps the elements that pass, in their order
getReviewsForDate(schedule, date) ==
    SelectSeq(schedule.reviews, LAMBDA review : isSameDay(review.date, date))

\* days of the calendar grid
GridDays == 42

\* mutant: the day of the month is subtracted in place of the weekday
generateCalendarDays_DayOfMonth(startDate) ==
    LET firstDayOfGrid == setDate(startDate, getDate(startDate) - getDate(startDate))
    IN  [i \in 1 .. GridDays |-> addDays(firstDayOfGrid, i - 1)]

generateCalendarDays(startDate) ==
    LET firstDayOfGrid == setDate(startDate, getDate(startDate) - getDay(startDate))
    IN  [i \in 1 .. GridDays |-> addDays(firstDayOfGrid, i - 1)]

\* n in decimal: the digits a template literal writes for a number
RECURSIVE Digits(_)
Digits(n) ==
    LET digit == <<"0", "1", "2", "3", "4", "5", "6", "7", "8", "9">>[(n % 10) + 1]
    IN  IF n < 10 THEN <<digit>> ELSE Append(Digits(n \div 10), digit)

\* the label of a review: "Learn" or "Review N"
getReviewLabel(review) ==
    IF review.isInitialLearning THEN <<"Learn">>
    ELSE <<"Review ">> \o Digits(review.reviewNumber)

-----------------------------------------------------------------------------
(* calendarExport: the iCal encoder.                                       *)

BS == "\\"
LF == "\n"
CR == "\r"

\* String.prototype.replace(/c/g, replacement) for a one-character pattern
RECURSIVE ReplaceAll(_, _, _)
ReplaceAll(text, c, replacement) ==
    IF text = <<>> THEN <<>>
    ELSE (IF Head(text) = c THEN replacement ELSE <<Head(text)>>)
             \o ReplaceAll(Tail(text), c, replacement)

\* Array.prototype.join(separator)
RECURSIVE Join(_, _)
Join(lines, separator) ==
    IF lines = <<>> THEN <<>>
    ELSE IF Len(lines) = 1 THEN lines[1]
    ELSE lines[1] \o separator \o Join(Tail(lines), separator)

\* n in decimal, padded with zeros to width w
PadLeft(ds, w) == [i \in 1 .. (w - Len(ds)) |-> "0"] \o ds

Pad(n, w) == PadLeft(Digits(n), w)

\* Date.prototype.toISOString: YYYY-MM-DDTHH:mm:ss.sssZ, in UTC
toISOString(date) ==
    Pad(YearFromTime(date), 4) \o <<"-">> \o Pad(MonthFromTime(date) + 1, 2)
        \o <<"-">> \o Pad(DateFromTime(date), 2) \o <<"T">>
        \o Pad(HourFromTime(date), 2) \o <<":">> \o Pad(MinFromTime(date), 2)
        \o <<":", "0", "0", ".", "0", "0", "0", "Z">>

\* text.split('.')[0]
RECURSIVE BeforeDot(_)
BeforeDot(text) ==
    IF text = <<>> \/ Head(text) = "." THEN <<>>
    ELSE <<Head(text)>> \o BeforeDot(Tail(text))

\* iso.replace(/[-:]/g, '').split('.')[0] + 'Z'
CompactISO(iso) ==
    BeforeDot(ReplaceAll(ReplaceAll(iso, "-", <<>>), ":", <<>>)) \o <<"Z">>

formatICSDate(date) ==
    LET eventDate == setHours(date, 9)
    IN  CompactISO(toISOString(eventDate))

\* mutant: the end is formatted at the hour of the start
formatICSDateEnd_StartHour(date) ==
    LET eventDate == setHours(date, 9)
    IN  CompactISO(toISOString(eventDate))

formatICSDateEnd(date) ==
    LET eventDate == setHours(date, 10)
    IN  CompactISO(toISOString(eventDate))

\* mutant: line feeds are not escaped
escapeICSText_NoLineFeed(text) ==
    ReplaceAll(
        ReplaceAll(
            ReplaceAll(text, BS, <<BS, BS>>),
            ";", <<BS, ";">>),
        ",", <<BS, ",">>)

escapeICSText(text) ==
    ReplaceAll(
        ReplaceAll(
            ReplaceAll(
                ReplaceAll(text, BS, <<BS, BS>>),
                ";", <<BS, ";">>),
            ",", <<BS, ",">>),
        LF, <<BS, "n">>)

\* the bullet of a concept line is written "* " here
generateEventDescription(review, module) ==
    LET first ==
            IF review.isInitialLearning
            THEN <<"Learn Chapter ">> \o Digits(module.chapter) \o <<": ">>
                     \o module.title
            ELSE <<"Review ">> \o Digits(review.reviewNumber)
                     \o <<" of 6 for Chapter ">> \o Digits(module.chapter)
        concepts ==
            [i \in DOMAIN module.concepts |-> <<"* ">> \o module.concepts[i]]
        questions ==
            IF Len(module.reviewQuestions) > 0
            THEN <<<<>>, <<"Review questions:">>>>
                     \o [i \in DOMAIN module.reviewQuestions |->
                            Digits(i) \o <<". ">> \o module.reviewQuestions[i]]
            ELSE <<>>
        lines ==
            <<first, <<>>, <<"Concepts to review:">>>> \o concepts \o questions
                \o <<<<>>, <<"Tutorial: tutorial.html">> \o module.tutorialAnchor>>
    IN  Join(lines, <<LF>>)

generateEventTitle(review, module) ==
    LET label == getReviewLabel(review)
    IN  label \o <<": ">> \o module.title

\* the decimal digits of date.getTime(): milliseconds, 60000 to the minute
TimeDigits(date) == Digits(getTime(date) * 6) \o <<"0", "0", "0", "0">>

\* mutant: the module's title is made part of the uid
EventUid_WithTitle(review, module) ==
    <<review.moduleId, "-r">> \o Digits(review.reviewNumber) \o <<"-">>
        \o module.title \o <<"@tvwriter-explorer">>

EventUid(review, module) ==
    <<review.moduleId, "-r">> \o Digits(review.reviewNumber) \o <<"-">>
        \o TimeDigits(review.date) \o <<"@tvwriter-explorer">>

generateICSEvent(review, module) ==
    LET title == generateEventTitle(review, module)
        description == generateEventDescription(review, module)
        uid == EventUid(review, module)
    IN  Join(<< <<"BEGIN:VEVENT">>,
                <<"DTSTART:">> \o formatICSDate(review.date),
                <<"DTEND:">> \o formatICSDateEnd(review.date),
                <<"SUMMARY:">> \o escapeICSText(title),
                <<"DESCRIPTION:">> \o escapeICSText(description),
                <<"UID:">> \o uid,
                <<"END:VEVENT">> >>,
             <<CR, LF>>)

\* new Map(modules.map((m) => [m.id, m])).get(id): the last module with the
\* id, or undefined
HasModule(modules, id) == \E i \in DOMAIN modules : modules[i].id = id

MapGet(modules, id) ==
    modules[CHOOSE i \in DOMAIN modules :
                /\ modules[i].id = id
                /\ \A j \in DOMAIN modules : modules[j].id = id => j <= i]

\* mutant: the mapping stops at the first review without a module
RECURSIVE Events_StopAtMiss(_, _)
Events_StopAtMiss(reviews, modules) ==
    IF reviews = <<>> THEN <<>>
    ELSE IF ~HasModule(modules, Head(reviews).moduleId) THEN <<>>
    ELSE <<generateICSEvent(Head(reviews), MapGet(modules, Head(reviews).moduleId))>>
             \o Events_StopAtMiss(Tail(reviews), modules)

\* reviews.map(...).filter((event) => event !== null)
RECURSIVE Events(_, _)
Events(reviews, modules) ==
    IF reviews = <<>> THEN <<>>
    ELSE (IF ~HasModule(modules, Head(reviews).moduleId) THEN <<>>
          ELSE <<generateICSEvent(Head(reviews),
                                  MapGet(modules, Head(reviews).moduleId))>>)
             \o Events(Tail(reviews), modules)

generateICSFile(reviews, modules) ==
    LET events == Events(reviews, modules)
    IN  Join(<< <<"BEGIN:VCALENDAR">>,
                <<"VERSION:2.0">>,
                <<"PRODID:-//TV Writer Explorer//Learning Schedule//EN">>,
                <<"CALSCALE:GREGORIAN">>,
                <<"METHOD:PUBLISH">> >>
                 \o events \o << <<"END:VCALENDAR">> >>,
             <<CR, LF>>)

-----------------------------------------------------------------------------
(* Inputs of the calls.                                                    *)

\* start dates: a new year, a year's last day, the eve of a leap day and a
\* day in mid-year, at several times of day
StartDates ==
    {DateUTC(2026, 1, 1, 0, 0), DateUTC(2025, 12, 31, 9, 30),
     DateUTC(2024, 2, 28, 23, 0), DateUTC(2025, 6, 15, 3, 15)}

\* module lists: up to MaxModules modules of the catalog in its order, one
\* list out of that order, and two lists that hold an id twice
ModuleLists ==
    UNION {{[i \in 1 .. n |-> CatalogModule(CatalogIds[pick[i]])] :
               pick \in {f \in [1 .. n -> DOMAIN CatalogIds] :
                             \A i, j \in 1 .. n : i < j => f[i] < f[j]}} :
           n \in 0 .. MaxModules}
        \cup {<<CatalogModule("ch3"), CatalogModule("ch1")>>,
              <<CatalogModule("ch1"), CatalogModule("ch1")>>,
              <<CatalogModule("ch2"), CatalogModule("ch1"), CatalogModule("ch2")>>}

\* anchors of the calendar grid: two weeks around a new year, every weekday
\* at two times of day
Anchors ==
    {DateUTC(2025, 12, 28, 0, 0) + k * MinutesPerDay + m :
        k \in 0 .. 13, m \in {0, MakeTime(15, 30)}}

Review(id, n, date) ==
    [moduleId |-> id, date |-> date, reviewNumber |-> n, isInitialLearning |-> n = 0]

\* free texts: every character escapeICSText looks for, a carriage return,
\* and the letter an escaped line feed is written with
TextChars == {"n", BS, ";", ",", LF, CR}

Texts == UNION {[1 .. n -> TextChars] : n \in 0 .. MaxText}

\* modules with a free text as title, as a concept or as a review question
TextModules ==
    {[CatalogModule("ch1") EXCEPT !.title = t] : t \in Texts}
        \cup {[CatalogModule("ch1") EXCEPT !.concepts = <<<<"requests library">>, t>>] :
                 t \in Texts}
        \cup {[CatalogModule("ch1") EXCEPT !.reviewQuestions = <<t>>] : t \in Texts}

\* dates of encoded reviews: around a new year, a leap day and a month's end,
\* early and late in the UTC day
EventDates ==
    {DateUTC(2026, 1, 1, 0, 0), DateUTC(2025, 12, 31, 20, 30),
     DateUTC(2024, 2, 29, 5, 0), DateUTC(2024, 3, 1, 2, 0),
     DateUTC(2025, 6, 30, 16, 0), DateUTC(2026, 3, 7, 12, 0)}

\* (review, module) pairs handed to generateICSEvent
EventInputs ==
    ({Review("ch1", n, DateUTC(2026, 1, 1, 0, 0)) : n \in {0, 3}} \X TextModules)
        \cup {<<Review(id, n, date), CatalogModule(id)>> :
                 id \in {"ch1", "ch3"}, n \in {0, 1, 6}, date \in EventDates}

\* the reviews that agree with review on moduleId, reviewNumber and date
SameEvent(review) ==
    {review, [review EXCEPT !.isInitialLearning = ~review.isInitialLearning]}

\* modules an event is encoded with again
ReencodeModules ==
    {CatalogModule("ch2"),
     [CatalogModule("ch1") EXCEPT !.title = <<";", "n">>,
                                  !.concepts = <<>>,
                                  !.reviewQuestions = <<>>]}

\* hand-built review lists: reviews of two modules on two dates, in any order
SampleReviews ==
    {Review("ch1", 0, DateUTC(2026, 1, 1, 0, 0)),
     Review("ch1", 0, DateUTC(2025, 12, 31, 20, 30)),
     Review("ch1", 2, DateUTC(2025, 12, 31, 20, 30)),
     Review("ch2", 0, DateUTC(2025, 12, 31, 20, 30)),
     Review("ch2", 2, DateUTC(2026, 1, 1, 0, 0))}

ReviewLists == UNION {[1 .. n -> SampleReviews] : n \in 0 .. MaxReviews}

\* module lists of a file: none, without ch2, with both, with an id twice,
\* with a title that holds a line break
FileModuleLists ==
    {<<>>,
     <<CatalogModule("ch1")>>,
     <<CatalogModule("ch2"), CatalogModule("ch1")>>,
     <<CatalogModule("ch1"), [CatalogModule("ch1") EXCEPT !.title = <<",">>]>>,
     <<[CatalogModule("ch1") EXCEPT !.title = <<CR, LF>>]>>}

\* the days asked of a schedule, counted from its start: the day before,
\* days with reviews in every schedule, and a day between two rungs
QueryDays == {-1, 0, 1, 5}

\* the hours of the day the question is asked at, local time
QueryHours == {0, 23}

QueryDates(schedule) ==
    {setHours(addDays(schedule.startDate, k), h) : k \in QueryDays, h \in QueryHours}

-----------------------------------------------------------------------------
(* The calls.  The functions are pure: a call is made from "idle", its     *)
(* arguments and result are the state until it is discarded by Return.     *)

\* no object of a caller is followed, no component is mounted
NoHeap == [dates |-> <<>>, lists |-> <<>>]

NotMounted == [mounted |-> FALSE]

Init ==
    /\ tz \in TimeZones
    /\ op = "idle"
    /\ args = <<>>
    /\ ret = <<>>
    /\ heap = NoHeap
    /\ ui = NotMounted

GenerateSchedule ==
    /\ op = "idle"
    /\ \E startDate \in StartDates, modules \in ModuleLists :
        /\ op' = "generateSchedule"
        /\ args' = [startDate |-> startDate, modules |-> modules]
        /\ ret' = generateSchedule(startDate, modules)
    /\ UNCHANGED <<tz, heap, ui>>

\* the range of the schedule just generated
GetScheduleDateRange ==
    /\ op = "generateSchedule"
    /\ op' = "getScheduleDateRange"
    /\ args' = [schedule |-> ret, generated |-> TRUE]
    /\ ret' = getScheduleDateRange(ret)
    /\ UNCHANGED <<tz, heap, ui>>

\* the range of a hand-built schedule
GetScheduleDateRangeBuilt ==
    /\ op = "idle"
    /\ \E startDate \in {DateUTC(2026, 1, 1, 0, 0)}, reviews \in ReviewLists :
        /\ op' = "getScheduleDateRange"
        /\ args' = [schedule |-> [startDate |-> startDate,
                                  modules |-> <<>>,
                                  reviews |-> reviews],
                    generated |-> FALSE]
        /\ ret' = getScheduleDateRange(args'.schedule)
    /\ UNCHANGED <<tz, heap, ui>>

GenerateICSEvent ==
    /\ op = "idle"
    /\ \E input \in EventInputs :
        /\ op' = "generateICSEvent"
        /\ args' = [review |-> input[1], module |-> input[2]]
        /\ ret' = generateICSEvent(input[1], input[2])
    /\ UNCHANGED <<tz, heap, ui>>

\* an event already encoded is encoded again, from a review that agrees on
\* moduleId, reviewNumber and date, with whatever module
ReencodeICSEvent ==
    /\ op = "generateICSEvent"
    /\ \E review \in SameEvent(args.review), module \in ReencodeModules :
        /\ op' = "generateICSEvent"
        /\ args' = [review |-> review, module |-> module]
        /\ ret' = generateICSEvent(review, module)
    /\ UNCHANGED <<tz, heap, ui>>

GenerateICSFile ==
    /\ op = "idle"
    /\ \E reviews \in ReviewLists, modules \in FileModuleLists :
        /\ op' = "generateICSFile"
        /\ args' = [reviews |-> reviews, modules |-> modules]
        /\ ret' = generateICSFile(reviews, modules)
    /\ UNCHANGED <<tz, heap, ui>>

\* handleDownloadICS: the file of the schedule just generated
HandleDownloadICS ==
    /\ op = "generateSchedule"
    /\ op' = "generateICSFile"
    /\ args' = [reviews |-> ret.reviews, modules |-> ret.modules]
    /\ ret' = generateICSFile(ret.reviews, ret.modules)
    /\ UNCHANGED <<tz, heap, ui>>

\* selectedReviews: the reviews of a day of the schedule just generated
GetReviewsForDate ==
    /\ op = "generateSchedule"
    /\ \E date \in QueryDates(ret) :
        /\ op' = "getReviewsForDate"
        /\ args' = [schedule |-> ret, date |-> date]
        /\ ret' = getReviewsForDate(ret, date)
    /\ UNCHANGED <<tz, heap, ui>>

GenerateCalendarDays ==
    /\ op = "idle"
    /\ \E anchor \in Anchors :
        /\ op' = "generateCalendarDays"
        /\ args' = [startDate |-> anchor]
        /\ ret' = generateCalendarDays(anchor)
    /\ UNCHANGED <<tz, heap, ui>>

Return ==
    /\ op # "idle"
    /\ op' = "idle"
    /\ args' = <<>>
    /\ ret' = <<>>
    /\ UNCHANGED <<tz, heap, ui>>

Next ==
    \/ GenerateSchedule
    \/ GetScheduleDateRange
    \/ GetScheduleDateRangeBuilt
    \/ GetReviewsForDate
    \/ GenerateCalendarDays
    \/ GenerateICSEvent
    \/ ReencodeICSEvent
    \/ GenerateICSFile
    \/ HandleDownloadICS
    \/ Return

Spec == Init /\ [][Next]_vars

-----------------------------------------------------------------------------
(* The same functions over objects.  A Date or an array of the caller has  *)
(* an identity: heap.dates and heap.lists hold the objects in the order    *)
(* they were made, an object is named by its place, and a field that holds *)
(* a Date or the module array holds the name.  The caller keeps its start  *)
(* date and its module array and may change them after a call.             *)

\* new Date(value): the heap with one more Date object, named LastDate
NewDate(h, value) == [h EXCEPT !.dates = Append(@, value)]

LastDate(h) == Len(h.dates)

\* mutant: adding no day hands the Date passed in back
addDaysRef_ReuseZero(h, date, days) ==
    IF days = 0 THEN [heap |-> h, date |-> date]
    ELSE LET made == NewDate(h, addDays(h.dates[date], days))
         IN  [heap |-> made, date |-> LastDate(made)]

\* addDays: result = new Date(date), moved by days
addDaysRef(h, date, days) ==
    LET made == NewDate(h, addDays(h.dates[date], days))
    IN  [heap |-> made, date |-> LastDate(made)]

\* the spaced reviews pushed for the first n intervals
RECURSIVE RepeatsRef(_, _, _, _)
RepeatsRef(h, learningDate, module, n) ==
    IF n = 0 THEN [heap |-> h, reviews |-> <<>>]
    ELSE LET before == RepeatsRef(h, learningDate, module, n - 1)
             made == addDaysRef(before.heap, learningDate, REVIEW_INTERVALS[n])
         IN  [heap |-> made.heap,
              reviews |-> Append(before.reviews,
                                 [moduleId |-> module.id,
                                  date |-> made.date,
                                  reviewNumber |-> (n - 1) + 1,
                                  isInitialLearning |-> FALSE])]

\* the reviews pushed after the first n modules have been visited
RECURSIVE PushReviewsRef(_, _, _, _)
PushReviewsRef(h, startDate, modules, n) ==
    IF n = 0 THEN [heap |-> h, reviews |-> <<>>]
    ELSE LET before == PushReviewsRef(h, startDate, modules, n - 1)
             learning == addDaysRef(before.heap, startDate, n - 1)
             repeats == RepeatsRef(learning.heap, learning.date, modules[n],
                                   Len(REVIEW_INTERVALS))
         IN  [heap |-> repeats.heap,
              reviews |-> before.reviews
                          \o <<[moduleId |-> modules[n].id,
                                date |-> learning.date,
                                reviewNumber |-> 0,
                                isInitialLearning |-> TRUE]>>
                          \o repeats.reviews]

\* reviews.sort: the records are ordered by the time values of their dates
sortRef(h, reviews) ==
    LET read == [j \in DOMAIN reviews |->
                    [moduleId |-> reviews[j].moduleId,
                     date |-> h.dates[reviews[j].date],
                     reviewNumber |-> reviews[j].reviewNumber,
                     isInitialLearning |-> reviews[j].isInitialLearning,
                     object |-> reviews[j].date]]
        sorted == sort(read)
    IN  [j \in DOMAIN sorted |->
            [moduleId |-> sorted[j].moduleId,
             date |-> sorted[j].object,
             reviewNumber |-> sorted[j].reviewNumber,
             isInitialLearning |-> sorted[j].isInitialLearning]]

\* generateSchedule: startDate and modules name the caller's objects
generateScheduleRef(h, startDate, modules) ==
    LET pushed == PushReviewsRef(h, startDate, h.lists[modules], Len(h.lists[modules]))
    IN  [heap |-> pushed.heap,
         schedule |-> [startDate |-> startDate,
                       modules |-> modules,
                       reviews |-> sortRef(pushed.heap, pushed.reviews)]]

getScheduleDateRangeRef(h, schedule) ==
    IF Len(schedule.reviews) = 0
    THEN [heap |-> h,
          range |-> [start |-> schedule.startDate, end |-> schedule.startDate]]
    ELSE LET dates == [j \in 1 .. Len(schedule.reviews) |->
                          getTime(h.dates[schedule.reviews[j].date])]
             first == NewDate(h, MinTime(dates, Len(dates)))
             second == NewDate(first, MaxTime(dates, Len(dates)))
         IN  [heap |-> second,
              range |-> [start |-> LastDate(first), end |-> LastDate(second)]]

\* what the caller holds: one Date and one array of modules
CallerDates == StartDates

CallerLists ==
    {<<>>, <<CatalogModule("ch1")>>, <<CatalogModule("ch1"), CatalogModule("ch2")>>}

InitObjects ==
    /\ tz \in TimeZones
    /\ op = "idle"
    /\ args = <<>>
    /\ ret = <<>>
    /\ heap \in {[dates |-> <<date>>, lists |-> <<list>>] :
                    date \in CallerDates, list \in CallerLists}
    /\ ui = NotMounted

GenerateScheduleRef ==
    /\ op = "idle"
    /\ LET made == generateScheduleRef(heap, 1, 1)
       IN  /\ op' = "generateSchedule"
           /\ args' = [startDate |-> 1, modules |-> 1]
           /\ ret' = made.schedule
           /\ heap' = made.heap
    /\ UNCHANGED <<tz, ui>>

GetScheduleDateRangeRef ==
    /\ op = "generateSchedule"
    /\ LET made == getScheduleDateRangeRef(heap, ret)
       IN  /\ op' = "getScheduleDateRange"
           /\ args' = [schedule |-> ret,
                       startDate |-> args.startDate,
                       modules |-> args.modules]
           /\ ret' = made.range
           /\ heap' = made.heap
    /\ UNCHANGED <<tz, ui>>

\* the caller sets its start date to another day, after a call
CallerSetsStartDate ==
    /\ op # "idle"
    /\ \E value \in CallerDates \ {heap.dates[args.startDate]} :
        heap' = [heap EXCEPT !.dates[args.startDate] = value]
    /\ UNCHANGED <<tz, op, args, ret, ui>>

\* the caller changes its array of modules, after a call
CallerChangesModules ==
    /\ op # "idle"
    /\ \E list \in CallerLists \ {heap.lists[args.modules]} :
        heap' = [heap EXCEPT !.lists[args.modules] = list]
    /\ UNCHANGED <<tz, op, args, ret, ui>>

NextObjects ==
    \/ GenerateScheduleRef
    \/ GetScheduleDateRangeRef
    \/ CallerSetsStartDate
    \/ CallerChangesModules

SpecObjects == InitObjects /\ [][NextObjects]_vars

-----------------------------------------------------------------------------
(* Vocabulary of the properties.                                           *)

DistinctIds(modules) ==
    \A i, j \in DOMAIN modules : i # j => modules[i].id # modules[j].id

\* d2 is d1 plus n calendar days: n local days later, same local time of day
PlusDays(d1, d2, n) ==
    /\ Day(LocalTime(d2)) = Day(LocalTime(d1)) + n
    /\ TimeWithinDay(LocalTime(d2)) = TimeWithinDay(LocalTime(d1))

\* positions in reviews of the reviews of module id with review number k
Positions(reviews, id, k) ==
    {j \in DOMAIN reviews : reviews[j].moduleId = id /\ reviews[j].reviewNumber = k}

\* place of a review in the order of generation: module index, then number
GenerationOrder(modules, r) ==
    7 * (CHOOSE i \in DOMAIN modules : modules[i].id = r.moduleId) + r.reviewNumber

-----------------------------------------------------------------------------
(* The schedule generator.                                                 *)

\* C1: for every start date and every module list with distinct ids the
\* generated schedule holds, for each module, exactly one review for each
\* reviewNumber 0..6 and no other review: 7 x |modules| reviews in all
\* (none for the empty list).
C1_SevenReviewsPerModule ==
    (op = "generateSchedule" /\ DistinctIds(args.modules)) =>
        /\ Len(ret.reviews) = 7 * Len(args.modules)
        /\ \A i \in DOMAIN args.modules : \A k \in 0 .. 6 :
               Cardinality(Positions(ret.reviews, args.modules[i].id, k)) = 1
        /\ \A j \in DOMAIN ret.reviews :
               /\ ret.reviews[j].reviewNumber \in 0 .. 6
               /\ \E i \in DOMAIN args.modules :
                      args.modules[i].id = ret.reviews[j].moduleId

C1_Witness ==
    /\ op = "generateSchedule"
    /\ Len(args.modules) = 3
    /\ DistinctIds(args.modules)
    /\ Len(ret.reviews) = 21

\* C2: the module at 0-based index i has its reviewNumber-0 review on
\* startDate + i days and, for k in 1..6, its reviewNumber-k review on its
\* own reviewNumber-0 date plus the k-th of 1, 3, 7, 14, 30, 60 days.
C2_DatesFollowLadder ==
    (op = "generateSchedule" /\ DistinctIds(args.modules)) =>
        \A i \in DOMAIN args.modules :
            LET id == args.modules[i].id
                initial == Positions(ret.reviews, id, 0)
            IN  /\ initial # {}
                /\ \A j0 \in initial :
                       /\ PlusDays(args.startDate, ret.reviews[j0].date, i - 1)
                       /\ \A k \in 1 .. 6 :
                              /\ Positions(ret.reviews, id, k) # {}
                              /\ \A jk \in Positions(ret.reviews, id, k) :
                                     PlusDays(ret.reviews[j0].date, ret.reviews[jk].date,
                                              <<1, 3, 7, 14, 30, 60>>[k])

\* the third module's last review: 2 + 60 days after the start, which
\* startDate plus the interval would not give
C2_Witness ==
    /\ op = "generateSchedule"
    /\ Len(args.modules) = 3
    /\ DistinctIds(args.modules)
    /\ \E j \in DOMAIN ret.reviews :
           /\ ret.reviews[j].moduleId = args.modules[3].id
           /\ ret.reviews[j].reviewNumber = 6
           /\ PlusDays(args.startDate, ret.reviews[j].date, 62)

\* C3: the reviews of a generated schedule are sorted non-decreasing by
\* date, and two reviews with equal dates stand in their order of generation
\* (lower module index first, then lower reviewNumber).
C3_SortedAndStable ==
    (op = "generateSchedule" /\ DistinctIds(args.modules)) =>
        \A j, k \in DOMAIN ret.reviews :
            j < k =>
                /\ getTime(ret.reviews[j].date) <= getTime(ret.reviews[k].date)
                /\ (getTime(ret.reviews[j].date) = getTime(ret.reviews[k].date)) =>
                       GenerationOrder(args.modules, ret.reviews[j])
                           < GenerationOrder(args.modules, ret.reviews[k])

\* two modules' reviews fall on one date, and a later module's review stands
\* before an earlier module's review of a later date
C3_Witness ==
    /\ op = "generateSchedule"
    /\ DistinctIds(args.modules)
    /\ \E j \in DOMAIN ret.reviews :
           /\ j + 1 \in DOMAIN ret.reviews
           /\ ret.reviews[j].date = ret.reviews[j + 1].date
           /\ ret.reviews[j].moduleId # ret.reviews[j + 1].moduleId
    /\ \E j, k \in DOMAIN ret.reviews :
           /\ j < k
           /\ GenerationOrder(args.modules, ret.reviews[j])
                  > GenerationOrder(args.modules, ret.reviews[k])

C5_GridOfSixWeeks ==
    op = "generateCalendarDays" =>
        /\ Len(ret) = 42
        /\ \A i \in 1 .. Len(ret) - 1 : PlusDays(ret[i], ret[i + 1], 1)
        /\ WeekDay(LocalTime(ret[1])) = 0
        /\ getTime(ret[1]) <= getTime(args.startDate)
        /\ \E n \in 0 .. 6 : PlusDays(ret[1], args.startDate, n)

\* an anchor on a Saturday: the grid starts 6 days before it, in the month
\* and year before
C5_Witness ==
    /\ op = "generateCalendarDays"
    /\ WeekDay(LocalTime(args.startDate)) = 6
    /\ PlusDays(ret[1], args.startDate, 6)
    /\ YearFromTime(LocalTime(ret[1])) # YearFromTime(LocalTime(args.startDate))

\* C10: the range of a schedule starts at the least and ends at the greatest
\* of its review dates, and is startDate to startDate when there is no
\* review; for a schedule generated from n >= 1 modules it runs from
\* startDate to startDate + (n - 1) + 60 days.
C10_RangeIsMinMax ==
    op = "getScheduleDateRange" =>
        LET schedule == args.schedule
            reviews == schedule.reviews
        IN  /\ (reviews = <<>>) =>
                   (ret.start = schedule.startDate /\ ret.end = schedule.startDate)
            /\ (reviews # <<>>) =>
                   /\ \E j \in DOMAIN reviews : getTime(reviews[j].date) = ret.start
                   /\ \E j \in DOMAIN reviews : getTime(reviews[j].date) = ret.end
                   /\ \A j \in DOMAIN reviews :
                          /\ ret.start <= getTime(reviews[j].date)
                          /\ getTime(reviews[j].date) <= ret.end
            /\ (args.generated /\ Len(schedule.modules) >= 1) =>
                   /\ ret.start = schedule.startDate
                   /\ PlusDays(schedule.startDate, ret.end,
                               (Len(schedule.modules) - 1) + 60)

C10_Witness ==
    /\ op = "getScheduleDateRange"
    /\ args.generated
    /\ Len(args.schedule.modules) = 3
    /\ PlusDays(ret.start, ret.end, 62)

\* the degenerate case: no review, both ends are the start date
C10_WitnessEmpty ==
    /\ op = "getScheduleDateRange"
    /\ args.schedule.reviews = <<>>
    /\ ret.start = args.schedule.startDate

\* positions in reviews of the reviews on the local calendar day of date
OnDayOf(reviews, date) ==
    {j \in DOMAIN reviews : Day(LocalTime(reviews[j].date)) = Day(LocalTime(date))}

\* the i-th smallest position of a set of positions
Ith(positions, i) ==
    CHOOSE j \in positions : Cardinality({k \in positions : k <= j}) = i

\* C11: getReviewsForDate(schedule, date) returns exactly the reviews of
\* schedule.reviews whose local calendar day (year, month, day of month) is
\* that of date, whatever the times of day, in the relative order they have
\* in schedule.reviews; when no review is on that day the result is the
\* empty sequence.
C11_ReviewsOfTheDay ==
    op = "getReviewsForDate" =>
        LET hits == OnDayOf(args.schedule.reviews, args.date)
        IN  /\ Len(ret) = Cardinality(hits)
            /\ \A i \in DOMAIN ret : ret[i] = args.schedule.reviews[Ith(hits, i)]

\* two reviews of a longer schedule are returned; the question is asked at
\* another time of day than theirs, on another UTC day
C11_Witness ==
    /\ op = "getReviewsForDate"
    /\ Len(ret) >= 2
    /\ Len(ret) < Len(args.schedule.reviews)
    /\ \A i \in DOMAIN ret :
        /\ TimeWithinDay(LocalTime(ret[i].date)) # TimeWithinDay(LocalTime(args.date))
        /\ Day(ret[i].date) # Day(args.date)

\* no review of a schedule with reviews is on the day asked
C11_WitnessEmpty ==
    /\ op = "getReviewsForDate"
    /\ Len(args.schedule.reviews) > 0
    /\ ret = <<>>

-----------------------------------------------------------------------------
(* Reading an encoded text back.                                           *)

\* the lines of a text: its pieces between CR LF pairs
RECURSIVE SplitLines(_, _)
SplitLines(text, line) ==
    LET ends == {i \in 1 .. (Len(text) - 1) : text[i] = CR /\ text[i + 1] = LF}
    IN  IF ends = {} THEN <<line \o text>>
        ELSE LET first == CHOOSE i \in ends : \A j \in ends : i <= j
             IN  <<line \o SubSeq(text, 1, first - 1)>>
                     \o SplitLines(SubSeq(text, first + 2, Len(text)), <<>>)

Malformed == "<malformed>"

\* the text an escaped value stands for; a semicolon, comma or line feed that
\* is not escaped, or a backslash that escapes nothing, makes it malformed
RECURSIVE Unescape(_)
Unescape(text) ==
    IF text = <<>> THEN <<>>
    ELSE IF Head(text) = BS
         THEN IF Len(text) >= 2 /\ text[2] \in {BS, ";", ","}
              THEN <<text[2]>> \o Unescape(SubSeq(text, 3, Len(text)))
              ELSE IF Len(text) >= 2 /\ text[2] = "n"
                   THEN <<LF>> \o Unescape(SubSeq(text, 3, Len(text)))
                   ELSE <<Malformed>>
         ELSE IF Head(text) \in {";", ",", LF} THEN <<Malformed>>
              ELSE <<Head(text)>> \o Unescape(Tail(text))

DigitChars == {"0", "1", "2", "3", "4", "5", "6", "7", "8", "9"}

DigitValue(c) ==
    CHOOSE d \in 0 .. 9 : <<"0", "1", "2", "3", "4", "5", "6", "7", "8", "9">>[d + 1] = c

\* the number written by the digits of stamp at positions from .. to
RECURSIVE Number(_, _, _)
Number(stamp, from, to) ==
    IF to < from THEN 0
    ELSE 10 * Number(stamp, from, to - 1) + DigitValue(stamp[to])

\* stamp has the form YYYYMMDDTHHMMSSZ
IsStamp(stamp) ==
    /\ Len(stamp) = 16
    /\ stamp[9] = "T"
    /\ stamp[16] = "Z"
    /\ \A i \in (1 .. 8) \cup (10 .. 15) : stamp[i] \in DigitChars

\* the UTC date and time a stamp names
ParseStamp(stamp) ==
    [year |-> Number(stamp, 1, 4), month |-> Number(stamp, 5, 6),
     day |-> Number(stamp, 7, 8), hour |-> Number(stamp, 10, 11),
     minute |-> Number(stamp, 12, 13), second |-> Number(stamp, 14, 15)]

StampTime(stamp) ==
    LET p == ParseStamp(stamp)
    IN  DateUTC(p.year, p.month, p.day, p.hour, p.minute)

\* the value of the line of an event block that starts with name
RECURSIVE FieldIn(_, _)
FieldIn(lines, name) ==
    IF lines = <<>> THEN <<Malformed>>
    ELSE IF Head(lines) # <<>> /\ Head(Head(lines)) = name THEN Tail(Head(lines))
    ELSE FieldIn(Tail(lines), name)

Field(block, name) == FieldIn(SplitLines(block, <<>>), name)

\* the reviews of a list that have a module in modules, in the list's order
Matched(reviews, modules) ==
    SelectSeq(reviews, LAMBDA r : \E i \in DOMAIN modules : modules[i].id = r.moduleId)

\* the positions of an atom in a text, and the k-th of them
Occurrences(text, atom) == {i \in DOMAIN text : text[i] = atom}

Kth(positions, k) ==
    CHOOSE i \in positions : Cardinality({j \in positions : j < i}) = k - 1

-----------------------------------------------------------------------------
(* The iCal encoder.                                                       *)

\* C6: generateICSFile puts out one VEVENT block for each review whose
\* moduleId is the id of a module of modules, in the order of the reviews,
\* and none for any other review: as many blocks as reviews with a module.
C6_OneBlockPerMatchedReview ==
    op = "generateICSFile" =>
        LET matched == Matched(args.reviews, args.modules)
            begins == Occurrences(ret, "BEGIN:VEVENT")
        IN  /\ Cardinality(begins) = Len(matched)
            /\ Cardinality(Occurrences(ret, "END:VEVENT")) = Len(matched)
            /\ \A k \in 1 .. Len(matched) :
                   \E i \in DOMAIN args.modules :
                       LET event == generateICSEvent(matched[k], args.modules[i])
                           from == Kth(begins, k)
                       IN  /\ args.modules[i].id = matched[k].moduleId
                           /\ from + Len(event) - 1 <= Len(ret)
                           /\ SubSeq(ret, from, from + Len(event) - 1) = event

\* a review without a module stands before one with a module: one block
\* fewer than reviews
C6_Witness ==
    /\ op = "generateICSFile"
    /\ Len(args.reviews) = 2
    /\ ~HasModule(args.modules, args.reviews[1].moduleId)
    /\ HasModule(args.modules, args.reviews[2].moduleId)
    /\ Cardinality(Occurrences(ret, "BEGIN:VEVENT")) = 1

C7_WitnessCRLF ==
    /\ op = "generateICSEvent"
    /\ args.module.concepts = <<<<"requests library">>, <<CR, LF>>>>
    /\ Len(SplitLines(ret, <<>>)) = 7

\* C8 as stated: the DTSTART and DTEND of a block read 09:00:00 and 10:00:00
\* UTC on the review's calendar date.
C8_NineAndTenUTC ==
    op = "generateICSEvent" =>
        LET start == Field(ret, "DTSTART:")
            end == Field(ret, "DTEND:")
            date == args.review.date
            at(hour) == [year |-> getFullYear(date), month |-> getMonth(date) + 1,
                         day |-> getDate(date), hour |-> hour, minute |-> 0,
                         second |-> 0]
        IN  /\ IsStamp(start) /\ ParseStamp(start) = at(9)
            /\ IsStamp(end) /\ ParseStamp(end) = at(10)

\* C8, amended: the DTSTART and DTEND of a block are the UTC instants of
\* 09:00:00 and 10:00:00 local time on the review's local calendar date
\* (09:00 and 10:00 less the host's zone offset), DTEND one hour after
\* DTSTART.
C8_NineAndTenLocal ==
    op = "generateICSEvent" =>
        LET start == Field(ret, "DTSTART:")
            end == Field(ret, "DTEND:")
            day == Day(LocalTime(args.review.date))
        IN  /\ IsStamp(start) /\ IsStamp(end)
            /\ ParseStamp(start).second = 0 /\ ParseStamp(end).second = 0
            /\ Day(LocalTime(StampTime(start))) = day
            /\ TimeWithinDay(LocalTime(StampTime(start))) = 9 * 60
            /\ Day(LocalTime(StampTime(end))) = day
            /\ TimeWithinDay(LocalTime(StampTime(end))) = 10 * 60
            /\ StampTime(end) = StampTime(start) + 60

\* east of UTC the start falls on the UTC date before the review's date
C8_Witness ==
    /\ op = "generateICSEvent"
    /\ tz = 600
    /\ args.review.date = DateUTC(2026, 1, 1, 0, 0)
    /\ Field(ret, "DTSTART:")
           = <<"2", "0", "2", "5", "1", "2", "3", "1", "T", "2", "3", "0", "0", "0", "0", "Z">>
    /\ Field(ret, "DTEND:")
           = <<"2", "0", "2", "6", "0", "1", "0", "1", "T", "0", "0", "0", "0", "0", "0", "Z">>

-----------------------------------------------------------------------------
(* Objects shared between a caller and a result.                           *)

\* the schedule of the call, or of the call before getScheduleDateRange
ReturnedSchedule == IF op = "generateSchedule" THEN ret ELSE args.schedule

\* the Date objects of the reviews of a schedule
ReviewDates(schedule) == {schedule.reviews[j].date : j \in DOMAIN schedule.reviews}

\* the time values read from the review dates of a schedule
ReadReviewDates(h, schedule) ==
    [j \in DOMAIN schedule.reviews |-> h.dates[schedule.reviews[j].date]]

\* a schedule read through the heap: the values the value-level functions
\* work on
ReadSchedule(h, schedule) ==
    [startDate |-> h.dates[schedule.startDate],
     modules |-> h.lists[schedule.modules],
     reviews |-> [j \in DOMAIN schedule.reviews |->
                     [schedule.reviews[j] EXCEPT !.date = h.dates[@]]]]

\* at its return a call over objects reads as the function over values
ObjectsAgree ==
    [][/\ GenerateScheduleRef =>
            ReadSchedule(heap', ret') =
                generateSchedule(heap.dates[1], heap.lists[1])
       /\ GetScheduleDateRangeRef =>
            [start |-> heap'.dates[ret'.start], end |-> heap'.dates[ret'.end]] =
                getScheduleDateRange(ReadSchedule(heap, ret))]_vars

\* C12 as stated: the results share no object with what the caller passed:
\* the startDate and modules of the schedule returned by generateSchedule
\* and the start and end returned by getScheduleDateRange are other objects
\* than the caller's startDate and module array.
C12_NoSharedObject ==
    /\ op = "generateSchedule" =>
        /\ ret.startDate # args.startDate
        /\ ret.modules # args.modules
    /\ op = "getScheduleDateRange" =>
        /\ ret.start # args.startDate
        /\ ret.end # args.startDate

\* the objects a returned result holds, in the state after a step
FreshAndShared ==
    /\ op = "generateSchedule" =>
        /\ ret.startDate = args.startDate
        /\ ret.modules = args.modules
        /\ args.startDate \notin ReviewDates(ret)
        /\ Cardinality(ReviewDates(ret)) = Len(ret.reviews)
    /\ (op = "getScheduleDateRange" /\ Len(args.schedule.reviews) = 0) =>
        /\ ret.start = args.schedule.startDate
        /\ ret.end = args.schedule.startDate
    /\ (op = "getScheduleDateRange" /\ Len(args.schedule.reviews) > 0) =>
        /\ ret.start # ret.end
        /\ {ret.start, ret.end} \cap
               ({args.startDate} \cup ReviewDates(args.schedule)) = {}

\* C12, amended: the reviews of the schedule returned by generateSchedule
\* hold Date objects made by the call, one for each review and none of them
\* the caller's startDate, and getScheduleDateRange of a schedule with
\* reviews returns two Date objects it made; no later change of the caller
\* to its startDate or its module array changes what these dates read.  The
\* startDate and modules of the schedule are the caller's own objects, and
\* of a schedule without reviews start and end are both schedule.startDate.
C12_ReviewDatesAreFresh ==
    [][/\ FreshAndShared'
       /\ (op # "idle" /\ op' = op) =>
            /\ ReadReviewDates(heap', ReturnedSchedule') =
                   ReadReviewDates(heap, ReturnedSchedule)
            /\ (op = "getScheduleDateRange" /\ Len(args.schedule.reviews) > 0) =>
                   /\ heap'.dates[ret'.start] = heap.dates[ret.start]
                   /\ heap'.dates[ret'.end] = heap.dates[ret.end]]_vars

\* the caller has changed its start date and its module array after the
\* calls: the range still begins on the day the first review was given
C12_Witness ==
    /\ op = "getScheduleDateRange"
    /\ Len(args.schedule.reviews) > 0
    /\ heap.dates[args.startDate] # heap.dates[ret.start]
    /\ heap.dates[ret.start] = heap.dates[args.schedule.reviews[1].date]
    /\ 7 * Len(heap.lists[args.modules]) # Len(args.schedule.reviews)

-----------------------------------------------------------------------------
(* LearningSchedule: the component's start date and calendar month.  The   *)
(* state is ui.startDate and ui.calendarMonth; the selected day takes no   *)
(* part in the navigation and is left out.  The schedule, the calendar     *)
(* days and the label of the month are computed from the state.            *)

\* months the calendar is followed away from January 2026
MaxNav == 6

\* new Date(year, month, day): local midnight; month and day carry over
DateLocal(year, month, day) == UTC(MakeDate(MakeDay(year, month, day), 0))

\* Date.prototype.setMonth(month): the month is replaced, the day of the
\* month and the local time of day kept; a day the month does not have
\* carries into the next month
setMonth(date, month) ==
    LET lt == LocalTime(date)
    IN  UTC(MakeDate(MakeDay(YearFromTime(lt), month, DateFromTime(lt)),
                     TimeWithinDay(lt)))

\* String.prototype.split: the pieces of text between the separators
RECURSIVE split(_, _, _)
split(text, separator, piece) ==
    IF text = <<>> THEN <<piece>>
    ELSE IF Head(text) = separator
         THEN <<piece>> \o split(Tail(text), separator, <<>>)
         ELSE split(Tail(text), separator, Append(piece, Head(text)))

parseDateInput(value) ==
    LET parts == split(value, "-", <<>>)
        year == Number(parts[1], 1, Len(parts[1]))
        month == Number(parts[2], 1, Len(parts[2]))
        day == Number(parts[3], 1, Len(parts[3]))
    IN  DateLocal(year, month - 1, day)

\* the value of the date input for a calendar date: YYYY-MM-DD
DateInput(year, month, day) ==
    Pad(year, 4) \o <<"-">> \o Pad(month, 2) \o <<"-">> \o Pad(day, 2)

\* the dates typed into the input: every length of month, its last days
DateInputs ==
    {DateInput(2026, 1, day) : day \in {1, 28, 29, 30, 31}}
        \cup {DateInput(2025, 12, 31), DateInput(2026, 2, 28),
              DateInput(2026, 3, 31), DateInput(2026, 4, 30)}

\* the instants the component is mounted at
Nows ==
    {DateUTC(2026, 1, 15, 10, 30), DateUTC(2026, 1, 31, 10, 30),
     DateUTC(2025, 12, 30, 20, 0)}

\* the month the calendar shows, counted in months: the month of
\* firstOfMonth, of the label and of isCurrentMonth
ShownMonth(calendarMonth) ==
    LET firstOfMonth == DateLocal(getFullYear(calendarMonth), getMonth(calendarMonth), 1)
    IN  12 * getFullYear(firstOfMonth) + getMonth(firstOfMonth)

\* the updaters handed to setCalendarMonth
PrevMonth(prev) == LET newMonth == prev IN setMonth(newMonth, getMonth(newMonth) - 1)

NextMonth(prev) == LET newMonth == prev IN setMonth(newMonth, getMonth(newMonth) + 1)

\* the calendar is followed while it shows a month near January 2026
Followed(calendarMonth) ==
    /\ ShownMonth(calendarMonth) - 12 * 2026 <= MaxNav
    /\ 12 * 2026 - ShownMonth(calendarMonth) <= MaxNav

\* the component is mounted: both dates are the current instant
InitComponent ==
    /\ tz \in TimeZones
    /\ op = "idle"
    /\ args = <<>>
    /\ ret = <<>>
    /\ heap = NoHeap
    /\ \E now \in Nows :
        ui = [mounted |-> TRUE, startDate |-> now, calendarMonth |-> now]

HandleStartDateChange ==
    /\ ui.mounted
    /\ \E value \in DateInputs :
        LET newDate == parseDateInput(value)
        IN  ui' = [ui EXCEPT !.startDate = newDate, !.calendarMonth = newDate]
    /\ UNCHANGED <<tz, op, args, ret, heap>>

HandlePrevMonth ==
    /\ ui.mounted
    /\ Followed(PrevMonth(ui.calendarMonth))
    /\ ui' = [ui EXCEPT !.calendarMonth = PrevMonth(ui.calendarMonth)]
    /\ UNCHANGED <<tz, op, args, ret, heap>>

HandleNextMonth ==
    /\ ui.mounted
    /\ Followed(NextMonth(ui.calendarMonth))
    /\ ui' = [ui EXCEPT !.calendarMonth = NextMonth(ui.calendarMonth)]
    /\ UNCHANGED <<tz, op, args, ret, heap>>

NextComponent ==
    \/ HandleStartDateChange
    \/ HandlePrevMonth
    \/ HandleNextMonth

SpecComponent == InitComponent /\ [][NextComponent]_vars

\* C13: from every calendarMonth the component reaches, handleNextMonth
\* shows the calendar month right after the one shown and handlePrevMonth
\* the one right before it, so that no month is skipped and the month shown
\* after Next followed by Prev is the month shown before.
C13_MonthByMonth ==
    [][/\ HandleNextMonth =>
            /\ ShownMonth(ui'.calendarMonth) = ShownMonth(ui.calendarMonth) + 1
            /\ ShownMonth(PrevMonth(ui'.calendarMonth)) = ShownMonth(ui.calendarMonth)
       /\ HandlePrevMonth =>
            ShownMonth(ui'.calendarMonth) = ShownMonth(ui.calendarMonth) - 1]_vars

====
